---- MODULE Spec2Model ----
(***************************************************************************)
(* Handover / RSSI / flow telemetry of the roaming scenario                *)
(* (src/scratch_tests_additionnel/roaming-saturation.cc; the handlers of   *)
(* wifi-roaming-v4.cc are line-for-line the same apart from narration).    *)
(*                                                                         *)
(* Units: virtual time is counted in ticks of 100 ns, kept as a number of   *)
(* sampler periods (100 ms) and an instant within the period; lengths in   *)
(* decimetres, signal levels in 1/10000 dB.  A text such as a callback     *)
(* context is a sequence of one-character strings; a CSV row is the tuple  *)
(* of its columns.  The sinks are write-only: each is kept as the number   *)
(* of lines written to it so far (size) and the lines appended by the      *)
(* latest handler that wrote to it (tail), with the stream's failbit.       *)
(***************************************************************************)
EXTENDS Integers, Sequences, FiniteSets, TLC

VARIABLES
    pc,             \* position of main
    now,            \* Simulator::Now(): whole sampler periods elapsed
    instant,        \* Simulator::Now(): ticks elapsed since that period began
    scheduled,      \* times of the pending RssiMonitorCallback invocations
    velocity,       \* velocity of the mobile station along x
    mobileX,        \* x position of the mobile station
    handoverCount,
    currentAp,
    handoverFile,
    rssiFile,
    flowCsv,
    console,        \* std::cout
    event,          \* the latest call made into the analytics code: the
                    \* Associate / Disassociate the engine delivered, or the
                    \* positions CalculateRssi was called with
    nEvents,        \* how many of them it has delivered
    lastAssociated, \* per station, the AP of its latest delivered Associate
    handoverRows,   \* number of HANDOVER rows written to handover_events.csv
    logged,         \* per StationID of handover_events.csv, the AP of its
                    \* latest ASSOC row and the AccessPoint2 of its latest
                    \* HANDOVER row
    snapshot,       \* the flow snapshot the monitor returned after the run
    txPower         \* option txPower, as set on the PHY of both APs

vars == <<pc, now, instant, scheduled, velocity, mobileX, handoverCount,
          currentAp, handoverFile, rssiFile, flowCsv, console,
          event, nEvents, lastAssociated, handoverRows, logged, snapshot, txPower>>

(* ----------------------------- bounds ---------------------------------- *)

\* number of fixed stations (option nStaFixed); one mobile station is added
nStaFixed == 1

\* half of the simulated duration, in sampler periods (option simTime)
HalfSimTicks == 1

\* number of Associate / Disassociate events the engine delivers in a run
MaxEvents == 3

\* number of flows in the post-run flow snapshot
MaxFlows == 3

\* number of instants strictly inside a sampler period, one tick apart, at
\* which the engine delivers events
MaxInstant == 1

\* extent of the grid of receiver positions handed to CalculateRssi, in
\* steps of half a metre from the transmitter along x and y
MaxReach == 6

(* ------------------------ program constants ---------------------------- *)

\* txPower = 16.0 dBm unless the option is given, in 1/10000 dBm
defaultTxPower == 160000

\* values of the option txPower: the default and 20 dBm
TxPowerOptions == {defaultTxPower, 200000}

NumAps == 2

\* std::string::npos, size_t(-1): size_t values are written as their
\* two's-complement signed reading, so that npos + 10 = 9 as in the code
NPOS == -1

\* MilliSeconds(100), in ticks of 100 ns
RssiPeriod == 1000000

\* speed 2.0 m/s = 2 dm per 100 ms
speed == 2

\* apDistance 60.0 m
apDistance == 600

simTime == 2 * HalfSimTicks

(* ------------------------------ texts ---------------------------------- *)

Digit == <<"0", "1", "2", "3", "4", "5", "6", "7", "8", "9">>

HexDigit == <<"0", "1", "2", "3", "4", "5", "6", "7", "8", "9",
              "a", "b", "c", "d", "e", "f">>

\* std::to_string / operator<< of an unsigned integer
RECURSIVE ToDecimal(_)
ToDecimal(n) ==
    IF n < 10 THEN <<Digit[n + 1]>>
    ELSE ToDecimal(n \div 10) \o <<Digit[(n % 10) + 1]>>

NodeListText == <<"/", "N", "o", "d", "e", "L", "i", "s", "t", "/">>

DeviceText == <<"/", "D", "e", "v", "i", "c", "e">>

\* rest of the trace path after "/NodeList/<n>/Device"
PathTail == <<"L", "i", "s", "t", "/", "0", "/", "M", "a", "c">>

\* the context the engine passes to a callback connected on
\* /NodeList/*/DeviceList/*/...: the matched path of station node n
ContextOf(n) == NodeListText \o ToDecimal(n) \o DeviceText \o PathTail

\* does pattern pat occur in s at (0-based) position p
MatchAt(s, pat, p) ==
    /\ p + Len(pat) <= Len(s)
    /\ \A k \in 1..Len(pat) : s[p + k] = pat[k]

\* std::string::find(pat, from): first 0-based position >= from, or npos
\* (from = npos finds nothing)
RECURSIVE Find(_, _, _)
Find(s, pat, from) ==
    IF from < 0 \/ from + Len(pat) > Len(s) THEN NPOS
    ELSE IF MatchAt(s, pat, from) THEN from
    ELSE Find(s, pat, from + 1)

DigitValue(c) == CHOOSE d \in 0..9 : Digit[d + 1] = c

IsDigit(c) == \E d \in 0..9 : Digit[d + 1] = c

\* length of the longest prefix of s made of decimal digits
RECURSIVE DigitPrefixLen(_)
DigitPrefixLen(s) ==
    IF s = <<>> \/ ~IsDigit(Head(s)) THEN 0
    ELSE 1 + DigitPrefixLen(Tail(s))

RECURSIVE DecimalValue(_)
DecimalValue(s) ==
    IF s = <<>> THEN 0
    ELSE 10 * DecimalValue(SubSeq(s, 1, Len(s) - 1)) + DigitValue(s[Len(s)])

\* outcome of substr + std::stoi on the context: the node id, or -1 when an
\* exception is thrown (std::out_of_range from substr, std::invalid_argument
\* from stoi)
ParseNodeId(context) ==
    LET start == Find(context, NodeListText, 0)
        end   == Find(context, DeviceText, start)
        pos   == start + 10
        count == end - pos
    IN  IF pos > Len(context) THEN -1
        ELSE LET last      == IF count < 0 \/ pos + count > Len(context)
                              THEN Len(context)
                              ELSE pos + count
                 nodeIdStr == SubSeq(context, pos + 1, last)
                 n         == DigitPrefixLen(nodeIdStr)
             IN  IF n = 0 THEN -1
                 ELSE DecimalValue(SubSeq(nodeIdStr, 1, n))

(* ------------------------------ nodes ---------------------------------- *)

\* wifiApNodes are created first (ids 0, 1), then the fixed stations, then
\* the mobile station
ApNodes == 0..(NumAps - 1)

StaNodes == NumAps..(NumAps + nStaFixed)

mobileNode == NumAps + nStaFixed

\* allStaNodes: index in the container handed to the sampler -> node id
allStaNodes == [i \in 0..nStaFixed |-> NumAps + i]

\* Mac48Address of a device: devices are installed fixed stations first,
\* then the mobile station, then the access points
Mac(k) == <<0, 0, 0, 0, 0, k>>

ApAddr(j) == Mac(nStaFixed + 2 + j)

ApAddrs == {ApAddr(j) : j \in ApNodes}

HexByte(b) == <<HexDigit[(b \div 16) + 1], HexDigit[(b % 16) + 1]>>

\* "xx:xx:xx:xx:xx:xx" as the tuple of its six two-digit groups
MacToString(addr) == [i \in 1..6 |-> HexByte(addr[i])]

\* ticks in one second
TicksPerSecond == 10 * RssiPeriod

\* std::ostream::precision() of a stream left at its default
Precision == 6

RECURSIVE Pow10(_)
Pow10(k) == IF k = 0 THEN 1 ELSE 10 * Pow10(k - 1)

\* number of decimal digits of n
RECURSIVE NumDigits(_)
NumDigits(n) == IF n < 10 THEN 1 ELSE 1 + NumDigits(n \div 10)

\* n rounded to Precision significant digits
RoundSignificant(n) ==
    LET d == NumDigits(n)
    IN  IF d <= Precision THEN n
        ELSE LET scale == Pow10(d - Precision)
             IN  ((n + scale \div 2) \div scale) * scale

\* the w low decimal digits of n, zero-padded
RECURSIVE Padded(_, _)
Padded(n, w) ==
    IF w = 0 THEN <<>>
    ELSE Padded(n \div 10, w - 1) \o <<Digit[(n % 10) + 1]>>

\* trailing zeros are not printed
RECURSIVE StripZeros(_)
StripZeros(s) ==
    IF s # <<>> /\ s[Len(s)] = "0" THEN StripZeros(SubSeq(s, 1, Len(s) - 1))
    ELSE s

\* operator<<(double) of a number of seconds given in ticks, v >= 0: at most
\* Precision significant digits, in scientific notation when the decimal
\* exponent is below -4 (fewer than 4 digits of ticks)
FormatDouble(v) ==
    LET r == RoundSignificant(v)
        d == NumDigits(r)
    IN  IF r = 0 THEN <<"0">>
        ELSE IF d < 4
        THEN LET m == StripZeros(ToDecimal(r))
             IN  <<Head(m)>>
                 \o (IF Len(m) > 1 THEN <<".">> \o Tail(m) ELSE <<>>)
                 \o <<"e", "-", "0", Digit[(8 - d) + 1]>>
        ELSE LET frac == StripZeros(Padded(r % TicksPerSecond, 7))
             IN  ToDecimal(r \div TicksPerSecond)
                 \o (IF frac = <<>> THEN <<>> ELSE <<".">> \o frac)

\* the text written by << for Simulator::Now().GetSeconds() at time t (ticks)
GetSeconds(t) == FormatDouble(t)

(* ------------------------- propagation model --------------------------- *)

RECURSIVE Pow2(_)
Pow2(k) == IF k = 0 THEN 1 ELSE 2 * Pow2(k - 1)

\* floor(log2(n)), n >= 1
RECURSIVE FloorLog2(_)
FloorLog2(n) == IF n < 2 THEN 0 ELSE 1 + FloorLog2(n \div 2)

\* fractional bits of log2 by repeated squaring; y is in [1,2) scaled by 4096;
\* the result is scaled by 2^bits
RECURSIVE Log2Frac(_, _)
Log2Frac(y, bits) ==
    IF bits = 0 THEN 0
    ELSE LET sq == (y * y) \div 4096
         IN  IF sq >= 8192
             THEN Pow2(bits - 1) + Log2Frac(sq \div 2, bits - 1)
             ELSE Log2Frac(sq, bits - 1)

\* std::log10(n) in 1/10000, n >= 1 an integer below 2^19 (fixed-point
\* rendering of the double computation, log10(n) = log2(n) * 0.30103)
Log10e4(n) ==
    LET e  == FloorLog2(n)
        y  == (n * 4096) \div Pow2(e)
        l2 == e * 1024 + Log2Frac(y, 10)
    IN  (l2 * 30103) \div 10240

Position(x, y, z) == [x |-> x, y |-> y, z |-> z]

\* squared euclidean distance, dm^2
Distance2(a, b) ==
    (a.x - b.x) * (a.x - b.x) + (a.y - b.y) * (a.y - b.y)
        + (a.z - b.z) * (a.z - b.z)

\* mutant: the level is computed from the power configured on the APs
txPowerDbm_Configured == txPower

txPowerDbm == 160000

referenceLoss == 466777

\* referenceDistance 1.0 m, squared, in dm^2
referenceDistance2 == 100

exponent == 3

\* the arguments std::log10 is called with by CalculateRssi (as distance2)
Log10Calls(txPosition, rxPosition) ==
    LET distance2 == Distance2(txPosition, rxPosition)
    IN  IF distance2 <= referenceDistance2 THEN <<>> ELSE <<distance2>>

\* the formula applied at every distance, without the reference-distance case
CalculateRssi_NoBranch(txPosition, rxPosition) ==
    LET distance2  == Distance2(txPosition, rxPosition)
        pathLossDb == referenceLoss
                      + (10 * exponent * (Log10e4(distance2) - 20000)) \div 2
    IN  txPowerDbm - pathLossDb

\* the logarithmic term with the opposite sign
CalculateRssi_Gain(txPosition, rxPosition) ==
    LET distance2  == Distance2(txPosition, rxPosition)
        pathLossDb == IF distance2 <= referenceDistance2 THEN referenceLoss
                      ELSE referenceLoss
                           - (10 * exponent * (Log10e4(distance2) - 20000)) \div 2
    IN  txPowerDbm - pathLossDb

\* CalculateRssi: log10(distance / referenceDistance)
\*   = (log10(distance2 in dm^2) - 2) / 2
CalculateRssi(txPosition, rxPosition) ==
    LET distance2  == Distance2(txPosition, rxPosition)
        pathLossDb == IF distance2 <= referenceDistance2 THEN referenceLoss
                      ELSE referenceLoss
                           + (10 * exponent * (Log10e4(distance2) - 20000)) \div 2
    IN  txPowerDbm - pathLossDb

\* positions handed out by the mobility models (main, MOBILITE)
ApPosition(j) == Position(j * apDistance, 0, 0)

StaPosition(i, mx) ==
    IF i < nStaFixed THEN Position(20 + 5 * i, 10 + 10 * i, 0)
    ELSE Position(mx, 20, 0)

(* --------------------------- output sinks ------------------------------ *)

EmptySink == [size |-> 0, tail |-> <<>>, failed |-> FALSE]

\* a stream whose open() did not succeed: failbit is set, nothing is thrown
FailedSink == [size |-> 0, tail |-> <<>>, failed |-> TRUE]

\* sink << line << std::endl, for each of the lines; a stream with failbit
\* set ignores the insertion
Write(sink, lines) ==
    IF lines = <<>> \/ sink.failed THEN sink
    ELSE [size |-> sink.size + Len(lines), tail |-> lines, failed |-> FALSE]

HandoverHeader == <<"Time", "EventType", "StationID", "AccessPoint1", "AccessPoint2">>

RssiHeader == <<"Time", "StationID", "APID", "PosX", "PosY", "RSSI">>

FlowHeader == <<"FlowID", "Source", "Destination", "TxPackets", "RxPackets",
                "LostPackets", "DelaySum", "JitterSum", "LastDelay", "TxBytes",
                "RxBytes", "Duration", "Throughput(Kbps)">>

(* ------------------------- association tracker ------------------------- *)

\* currentAp.find(nodeId) != currentAp.end()
Known(map, nodeId) == nodeId \in DOMAIN map

\* the value read by currentAp[nodeId]: operator[] of std::map yields a
\* default-constructed Mac48Address for a key that is absent
MapGet(map, nodeId) == IF Known(map, nodeId) THEN map[nodeId] ELSE Mac(0)

\* mutant: the find() test is dropped, operator[] reads a default address
IsHandover_NoFind(map, nodeId, apAddr) == MapGet(map, nodeId) # apAddr

\* the condition of the first branch of AssociationCallback
IsHandover(map, nodeId, apAddr) ==
    Known(map, nodeId) /\ MapGet(map, nodeId) # apAddr

\* the condition of the second branch (reassociation to the same AP)
IsReassociation(map, nodeId, apAddr) ==
    Known(map, nodeId) /\ MapGet(map, nodeId) = apAddr

\* mutant: the map is rebuilt with the single entry of this station
MapPut_Single(map, nodeId, apAddr) == [n \in {nodeId} |-> apAddr]

\* currentAp[nodeId] = apAddr
MapPut(map, nodeId, apAddr) ==
    [n \in (DOMAIN map) \cup {nodeId} |-> IF n = nodeId THEN apAddr ELSE map[n]]

\* mutant: the two AP columns are exchanged
HandoverRow_Reversed(t, nodeId, fromAp, toAp) ==
    <<GetSeconds(t), "HANDOVER", nodeId, MacToString(toAp), MacToString(fromAp)>>

HandoverRow(t, nodeId, fromAp, toAp) ==
    <<GetSeconds(t), "HANDOVER", nodeId, MacToString(fromAp), MacToString(toAp)>>

\* mutant: the ASSOC row also fills the AccessPoint2 column
AssocRow_Padded(t, nodeId, apAddr) ==
    <<GetSeconds(t), "ASSOC", nodeId, MacToString(apAddr), MacToString(apAddr)>>

AssocRow(t, nodeId, apAddr) ==
    <<GetSeconds(t), "ASSOC", nodeId, MacToString(apAddr)>>

\* mutant: the row type is copied from the association callback
DeassocRow_AsAssoc(t, nodeId, apAddr) ==
    <<GetSeconds(t), "ASSOC", nodeId, MacToString(apAddr)>>

DeassocRow(t, nodeId, apAddr) ==
    <<GetSeconds(t), "DEASSOC", nodeId, MacToString(apAddr)>>

\* mutant: the ASSOC row is written before the HANDOVER row
AssociationRows_AssocFirst(map, t, nodeId, apAddr) ==
    <<AssocRow(t, nodeId, apAddr)>>
    \o (IF IsHandover(map, nodeId, apAddr)
        THEN <<HandoverRow(t, nodeId, MapGet(map, nodeId), apAddr)>> ELSE <<>>)

\* rows AssociationCallback appends to handover_events.csv
AssociationRows(map, t, nodeId, apAddr) ==
    (IF IsHandover(map, nodeId, apAddr)
     THEN <<HandoverRow(t, nodeId, MapGet(map, nodeId), apAddr)>> ELSE <<>>)
    \o <<AssocRow(t, nodeId, apAddr)>>

\* mutant: every Associate of a recorded station counts as a handover
NextHandoverCount_EveryKnown(count, map, nodeId, apAddr) ==
    IF Known(map, nodeId) THEN count + 1 ELSE count

\* mutant: the counter is set on a handover instead of incremented
NextHandoverCount_Flag(count, map, nodeId, apAddr) ==
    IF IsHandover(map, nodeId, apAddr) THEN 1 ELSE count

\* value of handoverCount after AssociationCallback
NextHandoverCount(count, map, nodeId, apAddr) ==
    IF IsHandover(map, nodeId, apAddr) THEN count + 1 ELSE count

\* mutant: the line is printed with the counter as it was before the increment
HandoverNarration_Stale(count, nodeId, fromAp, toAp) ==
    <<"HANDOVER #", count - 1, nodeId, MacToString(fromAp), MacToString(toAp)>>

\* the line "  --> HANDOVER #<handoverCount>: STA<n> de <from> vers <to>"
HandoverNarration(count, nodeId, fromAp, toAp) ==
    <<"HANDOVER #", count, nodeId, MacToString(fromAp), MacToString(toAp)>>

\* lines AssociationCallback prints on std::cout; count is handoverCount on
\* entry, the handover line is printed after the increment
AssociationNarration(count, map, t, nodeId, apAddr) ==
    <<<<"ASSOCIATION", GetSeconds(t), nodeId, MacToString(apAddr)>>>>
    \o (IF IsHandover(map, nodeId, apAddr)
        THEN <<HandoverNarration(NextHandoverCount(count, map, nodeId, apAddr),
                                 nodeId, MapGet(map, nodeId), apAddr)>>
        ELSE IF IsReassociation(map, nodeId, apAddr)
        THEN <<<<"Reassociation au meme AP", MacToString(apAddr)>>>>
        ELSE <<<<"Premiere association", MacToString(apAddr)>>>>)

\* Simulator::Now(), in ticks
Now == now * RssiPeriod + instant

\* mutant: the exception leaves the handler after a row has been written
Terminate_AfterRow ==
    /\ pc' = "terminated"
    /\ handoverFile' = Write(handoverFile,
           <<<<GetSeconds(Now), "DEASSOC", NPOS, <<>>>>>>)
    /\ UNCHANGED <<handoverCount, currentAp, rssiFile, console, scheduled>>

\* an exception leaves the handler and, uncaught, ends the process
Terminate ==
    /\ pc' = "terminated"
    /\ UNCHANGED <<handoverCount, currentAp, handoverFile, rssiFile, console,
                   scheduled>>

AssociationCallback(context, apAddr) ==
    LET nodeId == ParseNodeId(context)
    IN  IF nodeId < 0 THEN Terminate
        ELSE /\ handoverCount' = NextHandoverCount(handoverCount, currentAp, nodeId, apAddr)
             /\ currentAp' = MapPut(currentAp, nodeId, apAddr)
             /\ handoverFile' = Write(handoverFile,
                    AssociationRows(currentAp, Now, nodeId, apAddr))
             /\ console' = Write(console,
                    AssociationNarration(handoverCount, currentAp, Now, nodeId, apAddr))
             /\ UNCHANGED <<pc, rssiFile, scheduled>>

DisassociationRows(t, nodeId, apAddr) == <<DeassocRow(t, nodeId, apAddr)>>

\* mutant: the callback records the AP as the association callback does
DisassociationCallback_Recording(context, apAddr) ==
    LET nodeId == ParseNodeId(context)
    IN  IF nodeId < 0 THEN Terminate
        ELSE /\ handoverFile' = Write(handoverFile, DisassociationRows(Now, nodeId, apAddr))
             /\ console' = Write(console,
                    <<<<"DESASSOCIATION", GetSeconds(Now), nodeId, MacToString(apAddr)>>>>)
             /\ currentAp' = MapPut(currentAp, nodeId, apAddr)
             /\ UNCHANGED <<pc, handoverCount, rssiFile, scheduled>>

\* mutant: the callback erases the station's entry
DisassociationCallback_Erasing(context, apAddr) ==
    LET nodeId == ParseNodeId(context)
    IN  IF nodeId < 0 THEN Terminate
        ELSE /\ handoverFile' = Write(handoverFile, DisassociationRows(Now, nodeId, apAddr))
             /\ console' = Write(console,
                    <<<<"DESASSOCIATION", GetSeconds(Now), nodeId, MacToString(apAddr)>>>>)
             /\ currentAp' = [n \in (DOMAIN currentAp) \ {nodeId} |-> currentAp[n]]
             /\ UNCHANGED <<pc, handoverCount, rssiFile, scheduled>>

DisassociationCallback(context, apAddr) ==
    LET nodeId == ParseNodeId(context)
    IN  IF nodeId < 0 THEN Terminate
        ELSE /\ handoverFile' = Write(handoverFile, DisassociationRows(Now, nodeId, apAddr))
             /\ console' = Write(console,
                    <<<<"DESASSOCIATION", GetSeconds(Now), nodeId, MacToString(apAddr)>>>>)
             /\ UNCHANGED <<pc, handoverCount, currentAp, rssiFile, scheduled>>

(* ----------------------------- RSSI sampler ---------------------------- *)

\* the (station index, AP index) pairs in the order of the two nested loops
SamplerPairs ==
    [k \in 1..((nStaFixed + 1) * NumAps) |->
        <<(k - 1) \div NumAps, (k - 1) % NumAps>>]

\* mutant: the row carries the node id of the station
RssiRow_NodeId(t, i, j, mx) ==
    <<GetSeconds(t), allStaNodes[i], j, StaPosition(i, mx).x, StaPosition(i, mx).y,
      CalculateRssi(ApPosition(j), StaPosition(i, mx))>>

RssiRow(t, i, j, mx) ==
    <<GetSeconds(t), i, j, StaPosition(i, mx).x, StaPosition(i, mx).y,
      CalculateRssi(ApPosition(j), StaPosition(i, mx))>>

\* std::fmod(currentTime, 5.0) < 0.1
NarrationDue(t) == (t % (5 * TicksPerSecond)) < RssiPeriod

\* mutant: the inner loop starts at the second access point
RssiRows_SkipFirstAp(t, mx) ==
    LET pairs == SelectSeq(SamplerPairs, LAMBDA q : q[2] >= 1)
    IN  [k \in 1..Len(pairs) |-> RssiRow(t, pairs[k][1], pairs[k][2], mx)]

RssiRows(t, mx) ==
    [k \in 1..Len(SamplerPairs) |-> RssiRow(t, SamplerPairs[k][1], SamplerPairs[k][2], mx)]

RssiNarration(t, mx) ==
    IF NarrationDue(t)
    THEN LET rows == RssiRows(t, mx)
         IN  [k \in 1..Len(rows) |-> <<"RSSI">> \o rows[k]]
    ELSE <<>>

\* mutant: the sampler restarts the handover counter at each tick
RssiMonitorCallback_Resetting ==
    /\ rssiFile' = Write(rssiFile, RssiRows(Now, mobileX))
    /\ console' = Write(console, RssiNarration(Now, mobileX))
    /\ scheduled' = Append(Tail(scheduled), Now + RssiPeriod)
    /\ handoverCount' = 0
    /\ UNCHANGED <<pc, currentAp, handoverFile>>

\* mutant: the next invocation is scheduled two periods ahead
RssiMonitorCallback_Late ==
    /\ rssiFile' = Write(rssiFile, RssiRows(Now, mobileX))
    /\ console' = Write(console, RssiNarration(Now, mobileX))
    /\ scheduled' = Append(Tail(scheduled), Now + 2 * RssiPeriod)
    /\ UNCHANGED <<pc, handoverCount, currentAp, handoverFile>>

\* mutant: the invocation re-arms itself twice
RssiMonitorCallback_Twice ==
    /\ rssiFile' = Write(rssiFile, RssiRows(Now, mobileX))
    /\ console' = Write(console, RssiNarration(Now, mobileX))
    /\ scheduled' = Append(Append(Tail(scheduled), Now + RssiPeriod),
                           Now + RssiPeriod)
    /\ UNCHANGED <<pc, handoverCount, currentAp, handoverFile>>

RssiMonitorCallback ==
    /\ rssiFile' = Write(rssiFile, RssiRows(Now, mobileX))
    /\ console' = Write(console, RssiNarration(Now, mobileX))
    /\ scheduled' = Append(Tail(scheduled), Now + RssiPeriod)
    /\ UNCHANGED <<pc, handoverCount, currentAp, handoverFile>>

(* ------------------------- flow aggregation ---------------------------- *)

RECURSIVE Gcd(_, _)
Gcd(a, b) == IF b = 0 THEN a ELSE Gcd(b, a % b)

Abs(a) == IF a < 0 THEN -a ELSE a

\* the value n / d of a double computation, d > 0, as a reduced fraction
Rational(n, d) ==
    LET g == Gcd(Abs(n), d) IN <<n \div g, d \div g>>

\* FlowMonitor::FlowStats with its five-tuple addresses; times in periods of
\* 0.1 s, delays in milliseconds
FlowStats(src, dst, txP, rxP, lostP, dSum, jSum, lastD, txB, rxB, first, last) ==
    [sourceAddress |-> src, destinationAddress |-> dst, txPackets |-> txP,
     rxPackets |-> rxP, lostPackets |-> lostP, delaySum |-> dSum,
     jitterSum |-> jSum, lastDelay |-> lastD, txBytes |-> txB, rxBytes |-> rxB,
     timeFirstTxPacket |-> first, timeLastRxPacket |-> last]

\* flows the engine's monitor reports: no traffic at all, sent but never
\* received, received traffic
FlowRecords ==
    << FlowStats("10.1.1.3", "10.1.1.1", 0, 0, 0, 0, 0, 0, 0, 0, 0, 0),
       FlowStats("10.1.1.4", "10.1.1.2", 2, 0, 2, 0, 0, 0, 1080, 0, 10, 0),
       FlowStats("10.1.1.3", "10.1.1.1", 10, 9, 1, 18, 3, 2, 1000000, 900000, 10, 90) >>

\* the flow reported under a flow id
FlowOf(id) == FlowRecords[((id - 1) % Len(FlowRecords)) + 1]

\* the std::map<FlowId, FlowStats> snapshots of at most MaxFlows flows; the
\* monitor numbers its flows from 1
FlowSnapshots == {[id \in 1..n |-> FlowOf(id)] : n \in 0..MaxFlows}

\* (timeLastRxPacket - timeFirstTxPacket), in periods
Duration(f) == f.timeLastRxPacket - f.timeFirstTxPacket

\* mutant: the factor of 8 bits per byte is left out
Throughput_Bytes(f) ==
    IF Duration(f) > 0 THEN Rational(f.rxBytes * 10, Duration(f) * 1000)
    ELSE <<0, 1>>

\* rxBytes * 8.0 / duration / 1000, duration in seconds
Throughput(f) ==
    IF Duration(f) > 0 THEN Rational(f.rxBytes * 8 * 10, Duration(f) * 1000)
    ELSE <<0, 1>>

\* the delay sum divided by the number of packets sent
MeanDelay_PerTxPacket(f) ==
    IF f.txPackets > 0 THEN Rational(f.delaySum, 1000 * f.txPackets)
    ELSE <<0, 1>>

\* delaySum.GetSeconds() / rxPackets of the console summary
MeanDelay(f) ==
    IF f.rxPackets > 0 THEN Rational(f.delaySum, 1000 * f.rxPackets)
    ELSE <<0, 1>>

FlowRow(id, f) ==
    <<id, f.sourceAddress, f.destinationAddress, f.txPackets, f.rxPackets,
      f.lostPackets, Rational(f.delaySum, 1000), Rational(f.jitterSum, 1000),
      Rational(f.lastDelay, 1000), f.txBytes, f.rxBytes,
      Rational(Duration(f), 10), Throughput(f)>>

FlowNarration(id, f) ==
    <<"Flux", id, f.sourceAddress, f.destinationAddress, f.txPackets,
      f.rxPackets, f.lostPackets, Throughput(f), MeanDelay(f)>>

\* mutant: the snapshot is walked from its last flow to its first
RECURSIVE Ascending_Descending(_)
Ascending_Descending(ids) ==
    IF ids = {} THEN <<>>
    ELSE LET m == CHOOSE x \in ids : \A y \in ids : x >= y
         IN  <<m>> \o Ascending_Descending(ids \ {m})

\* the flow ids of a snapshot in the iteration order of std::map
RECURSIVE Ascending(_)
Ascending(ids) ==
    IF ids = {} THEN <<>>
    ELSE LET m == CHOOSE x \in ids : \A y \in ids : x <= y
         IN  <<m>> \o Ascending(ids \ {m})

(* ------------------------------- main ---------------------------------- *)

NoEvent == [kind |-> "none", afterDeassoc |-> FALSE]

\* main with the option --txPower=power, before the sinks are opened
InitWith(power) ==
    /\ pc = "setup"
    /\ txPower = power
    /\ now = 0
    /\ instant = 0
    /\ scheduled = <<>>
    /\ velocity = speed
    /\ mobileX = 0
    /\ handoverCount = 0
    /\ currentAp = <<>>
    /\ handoverFile = EmptySink
    /\ rssiFile = EmptySink
    /\ flowCsv = EmptySink
    /\ console = EmptySink
    /\ event = NoEvent
    /\ nEvents = 0
    /\ lastAssociated = <<>>
    /\ handoverRows = 0
    /\ logged = <<>>
    /\ snapshot = <<>>

\* the run with the default options
Init == InitWith(defaultTxPower)

\* std::ofstream::open: the stream as open() leaves it
Open(ok) == IF ok THEN EmptySink ELSE FailedSink

\* an opening that leaves rssi_measurements.csv without its header row
OpenSinksWith_HeaderLess(handoverOk, rssiOk) ==
    /\ pc = "setup"
    /\ pc' = "opened"
    /\ handoverFile' = Write(Open(handoverOk), <<HandoverHeader>>)
    /\ rssiFile' = Open(rssiOk)
    /\ UNCHANGED <<now, instant, scheduled, velocity, mobileX, handoverCount,
                   currentAp, flowCsv, console, event, nEvents, lastAssociated,
                   handoverRows, logged, snapshot, txPower>>

\* handoverFile.open ... rssiFile << header; the result of open() is not
\* tested
OpenSinksWith(handoverOk, rssiOk) ==
    /\ pc = "setup"
    /\ pc' = "opened"
    /\ handoverFile' = Write(Open(handoverOk), <<HandoverHeader>>)
    /\ rssiFile' = Write(Open(rssiOk), <<RssiHeader>>)
    /\ UNCHANGED <<now, instant, scheduled, velocity, mobileX, handoverCount,
                   currentAp, flowCsv, console, event, nEvents, lastAssociated,
                   handoverRows, logged, snapshot, txPower>>

\* both files can be created
OpenSinks == OpenSinksWith(TRUE, TRUE)

\* Config::Connect of both callbacks, Schedule(Seconds(0.0), sampler),
\* Simulator::Stop, entry into Simulator::Run
StartRun ==
    /\ pc = "opened"
    /\ pc' = "running"
    /\ scheduled' = <<0>>
    /\ UNCHANGED <<now, instant, velocity, mobileX, handoverCount, currentAp,
                   handoverFile, rssiFile, flowCsv, console, event, nEvents,
                   lastAssociated, handoverRows, logged, snapshot, txPower>>

Running == pc = "running" /\ now < simTime

\* was the latest delivered event the Disassociate of station n from the AP
\* of its latest Associate
JustDisassociated(n) ==
    /\ event.kind = "Disassociate"
    /\ event.stationId = n
    /\ n \in DOMAIN lastAssociated
    /\ lastAssociated[n] = event.apId

\* an event as the engine delivers it; afterDeassoc records whether an
\* Associate directly follows the station's Disassociate from its AP
Event(kind, nodeId, apAddr) ==
    [kind |-> kind, time |-> Now, stationId |-> nodeId, apId |-> apAddr,
     afterDeassoc |-> (kind = "Associate" /\ JustDisassociated(nodeId))]

\* number of rows of the given type among rows
CountRows(rows, type) == Cardinality({k \in 1..Len(rows) : rows[k][2] = type})

\* the rows a step appended to handover_events.csv
Appended(before, after) == IF after.size > before.size THEN after.tail ELSE <<>>

\* nothing logged yet for a station
NotLogged == [assoc |-> <<>>, handover |-> <<>>]

\* what is logged for a station id
LoggedFor(log, n) == IF n \in DOMAIN log THEN log[n] ELSE NotLogged

\* the log after one more row of handover_events.csv
LoggedRow(log, row) ==
    LET n   == row[3]
        was == LoggedFor(log, n)
        is  == IF row[2] = "ASSOC" THEN [was EXCEPT !.assoc = row[4]]
               ELSE [was EXCEPT !.handover = row[5]]
    IN  IF row[2] \in {"ASSOC", "HANDOVER"}
        THEN [s \in (DOMAIN log) \cup {n} |-> IF s = n THEN is ELSE log[s]]
        ELSE log

\* the log after the rows, in the order they were appended
RECURSIVE Logged(_, _)
Logged(log, rows) ==
    IF rows = <<>> THEN log
    ELSE Logged(LoggedRow(log, Head(rows)), Tail(rows))

\* the engine fires the Assoc trace source of station node n
Associate ==
    /\ Running
    /\ nEvents < MaxEvents
    /\ \E n \in StaNodes, apAddr \in ApAddrs :
          /\ event' = Event("Associate", n, apAddr)
          /\ lastAssociated' = [s \in (DOMAIN lastAssociated) \cup {n} |->
                                    IF s = n THEN apAddr ELSE lastAssociated[s]]
          /\ AssociationCallback(ContextOf(n), apAddr)
    /\ nEvents' = nEvents + 1
    /\ logged' = Logged(logged, Appended(handoverFile, handoverFile'))
    /\ handoverRows' = handoverRows
                        + CountRows(Appended(handoverFile, handoverFile'), "HANDOVER")
    /\ UNCHANGED <<now, instant, velocity, mobileX, flowCsv, snapshot, txPower>>

\* the engine fires the DeAssoc trace source of station node n
Disassociate ==
    /\ Running
    /\ nEvents < MaxEvents
    /\ \E n \in StaNodes, apAddr \in ApAddrs :
          /\ event' = Event("Disassociate", n, apAddr)
          /\ DisassociationCallback(ContextOf(n), apAddr)
    /\ nEvents' = nEvents + 1
    /\ logged' = Logged(logged, Appended(handoverFile, handoverFile'))
    /\ handoverRows' = handoverRows
                        + CountRows(Appended(handoverFile, handoverFile'), "HANDOVER")
    /\ UNCHANGED <<now, instant, velocity, mobileX, flowCsv, lastAssociated,
                   snapshot, txPower>>

\* the engine runs the pending sampler invocation
SamplerTick ==
    /\ Running
    /\ scheduled # <<>>
    /\ Head(scheduled) = Now
    /\ RssiMonitorCallback
    /\ UNCHANGED <<now, instant, velocity, mobileX, flowCsv, event, nEvents,
                   lastAssociated, handoverRows, logged, snapshot, txPower>>

\* the lambda scheduled at simTime/2: the mobile station turns back
TurnBack ==
    /\ Running
    /\ now = HalfSimTicks
    /\ instant = 0
    /\ velocity = speed
    /\ velocity' = -speed
    /\ console' = Write(console, <<<<"demi-tour", GetSeconds(Now)>>>>)
    /\ UNCHANGED <<pc, now, instant, scheduled, mobileX, handoverCount,
                   currentAp, handoverFile, rssiFile, flowCsv, event, nEvents,
                   lastAssociated, handoverRows, logged, snapshot, txPower>>

\* every event scheduled for the current instant has run
InstantDone ==
    /\ \A k \in 1..Len(scheduled) : scheduled[k] > Now
    /\ ~(now = HalfSimTicks /\ instant = 0 /\ velocity = speed)

\* virtual time moves on to an instant inside the current sampler period, at
\* which the engine has association events to deliver
AdvanceWithinPeriod ==
    /\ Running
    /\ InstantDone
    /\ instant < MaxInstant
    /\ instant' = instant + 1
    /\ UNCHANGED <<pc, now, scheduled, velocity, mobileX, handoverCount,
                   currentAp, handoverFile, rssiFile, flowCsv, console, event,
                   nEvents, lastAssociated, handoverRows, logged, snapshot, txPower>>

\* virtual time moves on to the beginning of the next sampler period
Advance ==
    /\ Running
    /\ InstantDone
    /\ now' = now + 1
    /\ instant' = 0
    /\ mobileX' = mobileX + velocity
    /\ UNCHANGED <<pc, scheduled, velocity, handoverCount, currentAp,
                   handoverFile, rssiFile, flowCsv, console, event, nEvents,
                   lastAssociated, handoverRows, logged, snapshot, txPower>>

\* the stop event at simTime: Simulator::Run returns
Stop ==
    /\ pc = "running"
    /\ now = simTime
    /\ pc' = "stopped"
    /\ UNCHANGED <<now, instant, scheduled, velocity, mobileX, handoverCount,
                   currentAp, handoverFile, rssiFile, flowCsv, console, event,
                   nEvents, lastAssociated, handoverRows, logged, snapshot, txPower>>

\* the flow loop of main after Simulator::Run on the stream flowCsv.open()
\* left, then the final statistics
FlowReport(opened, stats) ==
    LET ids == Ascending(DOMAIN stats)
    IN  /\ flowCsv' = Write(opened, <<FlowHeader>> \o
              [k \in 1..Len(ids) |-> FlowRow(ids[k], stats[ids[k]])])
        /\ console' = Write(console,
              [k \in 1..Len(ids) |-> FlowNarration(ids[k], stats[ids[k]])]
              \o <<<<"Nombre total de handovers", handoverCount>>>>)
        /\ UNCHANGED <<handoverCount, currentAp, handoverFile, rssiFile>>

\* main after Simulator::Run: flow_stats.csv, closing, final statistics,
\* Simulator::Destroy (which drops the events still pending)
PostRunWith(flowOk) ==
    /\ pc = "stopped"
    /\ pc' = "done"
    /\ \E stats \in FlowSnapshots :
          /\ snapshot' = stats
          /\ FlowReport(Open(flowOk), stats)
    /\ scheduled' = <<>>
    /\ UNCHANGED <<now, instant, velocity, mobileX, event, nEvents,
                   lastAssociated, handoverRows, logged, txPower>>

PostRun == PostRunWith(TRUE)

\* a run whose association events fall on the sampler's instants
Next ==
    \/ OpenSinks
    \/ StartRun
    \/ Associate
    \/ Disassociate
    \/ SamplerTick
    \/ TurnBack
    \/ Advance
    \/ Stop
    \/ PostRun

Spec == Init /\ [][Next]_vars

\* a run whose association events fall on any instant
NextTimed ==
    \/ Next
    \/ AdvanceWithinPeriod

SpecTimed == Init /\ [][NextTimed]_vars

\* handoverFile.open, rssiFile.open where either file may fail to open
OpenSinksAny ==
    \E handoverOk, rssiOk \in BOOLEAN : OpenSinksWith(handoverOk, rssiOk)

\* main after Simulator::Run where flowCsv.open may fail
PostRunAny == \E flowOk \in BOOLEAN : PostRunWith(flowOk)

\* a run in a directory where the output files may not be creatable
NextIO ==
    \/ OpenSinksAny
    \/ StartRun
    \/ Associate
    \/ Disassociate
    \/ SamplerTick
    \/ TurnBack
    \/ Advance
    \/ Stop
    \/ PostRunAny

SpecIO == Init /\ [][NextIO]_vars

\* contexts that are not the path of a station's trace source: "/Device"
\* missing, "/NodeList/" missing (two lengths), no node id between the two
MalformedContexts ==
    { NodeListText \o <<"7", "/", "M", "a", "c">>,
      <<"c", "o", "n", "t", "e", "x", "t", "/", "2", "5">>,
      <<"/", "M", "a", "c">>,
      NodeListText \o DeviceText }

\* an event delivered with a context the engine's path matching would not
\* produce; no station is known for it
MalformedEvent(kind, context, apAddr) ==
    [kind |-> kind, time |-> Now, stationId |-> NPOS, apId |-> apAddr,
     afterDeassoc |-> FALSE, context |-> context]

\* AssociationCallback invoked with one of the contexts
AssociateWith(contexts) ==
    /\ Running
    /\ nEvents < MaxEvents
    /\ \E context \in contexts, apAddr \in ApAddrs :
          /\ event' = MalformedEvent("Associate", context, apAddr)
          /\ AssociationCallback(context, apAddr)
    /\ nEvents' = nEvents + 1
    /\ logged' = Logged(logged, Appended(handoverFile, handoverFile'))
    /\ handoverRows' = handoverRows
                        + CountRows(Appended(handoverFile, handoverFile'), "HANDOVER")
    /\ UNCHANGED <<now, instant, velocity, mobileX, flowCsv, lastAssociated,
                   snapshot, txPower>>

\* DisassociationCallback invoked with one of the contexts
DisassociateWith(contexts) ==
    /\ Running
    /\ nEvents < MaxEvents
    /\ \E context \in contexts, apAddr \in ApAddrs :
          /\ event' = MalformedEvent("Disassociate", context, apAddr)
          /\ DisassociationCallback(context, apAddr)
    /\ nEvents' = nEvents + 1
    /\ logged' = Logged(logged, Appended(handoverFile, handoverFile'))
    /\ handoverRows' = handoverRows
                        + CountRows(Appended(handoverFile, handoverFile'), "HANDOVER")
    /\ UNCHANGED <<now, instant, velocity, mobileX, flowCsv, lastAssociated,
                   snapshot, txPower>>

AssociateMalformed == AssociateWith(MalformedContexts)

DisassociateMalformed == DisassociateWith(MalformedContexts)

\* a run in which the callbacks also receive malformed contexts
NextContexts ==
    \/ Next
    \/ AssociateMalformed
    \/ DisassociateMalformed

SpecContexts == Init /\ [][NextContexts]_vars

\* the malformed contexts on which substr or std::stoi throws
ThrowingContexts == {context \in MalformedContexts : ParseNodeId(context) < 0}

AssociateThrowing == AssociateWith(ThrowingContexts)

DisassociateThrowing == DisassociateWith(ThrowingContexts)

\* a run that ends when a callback receives a context on which the
\* extraction of the node id throws
NextThrowing ==
    \/ Next
    \/ AssociateThrowing
    \/ DisassociateThrowing

SpecThrowing == Init /\ [][NextThrowing]_vars

\* runs with any of the values of the option txPower
InitOptions == \E power \in TxPowerOptions : InitWith(power)

SpecOptions == InitOptions /\ [][Next]_vars

(* ----------------- the handlers of wifi-roaming-v4.cc ------------------- *)

\* operator<< of Mac48Address, which the handlers apply to apAddr directly
V4MacText(addr) == [i \in 1..6 |-> HexByte(addr[i])]

\* CalculateDistance(a, b), squared, dm^2
V4CalculateDistance2(a, b) ==
    LET dx == b.x - a.x
        dy == b.y - a.y
        dz == b.z - a.z
    IN  dx * dx + dy * dy + dz * dz

V4CalculateRssi(txPosition, rxPosition) ==
    LET distance2   == V4CalculateDistance2(txPosition, rxPosition)
        txPower16   == 160000
        exponent3   == 3
        refDist2    == 100
        refLoss     == 466777
        pathLossDb  == IF distance2 <= refDist2 THEN refLoss
                       ELSE refLoss
                            + (10 * exponent3 * (Log10e4(distance2) - 20000)) \div 2
    IN  txPower16 - pathLossDb

\* rows of one invocation of RssiMonitorCallback, stations outermost
V4RssiRows(t, mx) ==
    [k \in 1..((nStaFixed + 1) * NumAps) |->
        LET i == (k - 1) \div NumAps
            j == (k - 1) % NumAps
        IN  <<GetSeconds(t), i, j, StaPosition(i, mx).x, StaPosition(i, mx).y,
              V4CalculateRssi(ApPosition(j), StaPosition(i, mx))>>]

V4RssiNarration(t, mx) ==
    IF (t % (5 * TicksPerSecond)) < RssiPeriod
    THEN [k \in 1..Len(V4RssiRows(t, mx)) |-> <<"RSSI">> \o V4RssiRows(t, mx)[k]]
    ELSE <<>>

V4RssiMonitorCallback ==
    /\ rssiFile' = Write(rssiFile, V4RssiRows(Now, mobileX))
    /\ console' = Write(console, V4RssiNarration(Now, mobileX))
    /\ scheduled' = Append(Tail(scheduled), Now + RssiPeriod)
    /\ UNCHANGED <<pc, handoverCount, currentAp, handoverFile>>

\* mutant: a handover is logged by its HANDOVER row alone
V4AssociationRows_HandoverOnly(map, t, nodeId, apAddr) ==
    IF nodeId \in DOMAIN map /\ map[nodeId] # apAddr
    THEN <<<<GetSeconds(t), "HANDOVER", nodeId, V4MacText(map[nodeId]),
             V4MacText(apAddr)>>>>
    ELSE <<<<GetSeconds(t), "ASSOC", nodeId, V4MacText(apAddr)>>>>

\* rows AssociationCallback appends to handover_events.csv
V4AssociationRows(map, t, nodeId, apAddr) ==
    (IF nodeId \in DOMAIN map /\ map[nodeId] # apAddr
     THEN <<<<GetSeconds(t), "HANDOVER", nodeId, V4MacText(map[nodeId]),
              V4MacText(apAddr)>>>>
     ELSE <<>>)
    \o <<<<GetSeconds(t), "ASSOC", nodeId, V4MacText(apAddr)>>>>

\* lines AssociationCallback prints: the association line and, for a
\* handover, the handover line with the incremented counter; nothing else
V4AssociationNarration(count, map, t, nodeId, apAddr) ==
    <<<<"ASSOCIATION", GetSeconds(t), nodeId, V4MacText(apAddr)>>>>
    \o (IF nodeId \in DOMAIN map /\ map[nodeId] # apAddr
        THEN <<<<"HANDOVER #", count + 1, nodeId, V4MacText(map[nodeId]),
                 V4MacText(apAddr)>>>>
        ELSE <<>>)

\* the node id is extracted by the same four statements (ParseNodeId)
V4AssociationCallback(context, apAddr) ==
    LET nodeId == ParseNodeId(context)
    IN  IF nodeId < 0 THEN Terminate
        ELSE /\ handoverCount' =
                    (IF nodeId \in DOMAIN currentAp /\ currentAp[nodeId] # apAddr
                     THEN handoverCount + 1 ELSE handoverCount)
             /\ currentAp' = [n \in (DOMAIN currentAp) \cup {nodeId} |->
                                 IF n = nodeId THEN apAddr ELSE currentAp[n]]
             /\ handoverFile' = Write(handoverFile,
                    V4AssociationRows(currentAp, Now, nodeId, apAddr))
             /\ console' = Write(console,
                    V4AssociationNarration(handoverCount, currentAp, Now, nodeId, apAddr))
             /\ UNCHANGED <<pc, rssiFile, scheduled>>

V4DisassociationCallback(context, apAddr) ==
    LET nodeId == ParseNodeId(context)
    IN  IF nodeId < 0 THEN Terminate
        ELSE /\ handoverFile' = Write(handoverFile,
                    <<<<GetSeconds(Now), "DEASSOC", nodeId, V4MacText(apAddr)>>>>)
             /\ console' = Write(console,
                    <<<<"DESASSOCIATION", GetSeconds(Now), nodeId, V4MacText(apAddr)>>>>)
             /\ UNCHANGED <<pc, handoverCount, currentAp, rssiFile, scheduled>>

\* the engine fires the Assoc trace source of station node n
V4Associate ==
    /\ Running
    /\ nEvents < MaxEvents
    /\ \E n \in StaNodes, apAddr \in ApAddrs :
          /\ event' = Event("Associate", n, apAddr)
          /\ lastAssociated' = [s \in (DOMAIN lastAssociated) \cup {n} |->
                                    IF s = n THEN apAddr ELSE lastAssociated[s]]
          /\ V4AssociationCallback(ContextOf(n), apAddr)
    /\ nEvents' = nEvents + 1
    /\ logged' = Logged(logged, Appended(handoverFile, handoverFile'))
    /\ handoverRows' = handoverRows
                        + CountRows(Appended(handoverFile, handoverFile'), "HANDOVER")
    /\ UNCHANGED <<now, instant, velocity, mobileX, flowCsv, snapshot, txPower>>

\* the engine fires the DeAssoc trace source of station node n
V4Disassociate ==
    /\ Running
    /\ nEvents < MaxEvents
    /\ \E n \in StaNodes, apAddr \in ApAddrs :
          /\ event' = Event("Disassociate", n, apAddr)
          /\ V4DisassociationCallback(ContextOf(n), apAddr)
    /\ nEvents' = nEvents + 1
    /\ logged' = Logged(logged, Appended(handoverFile, handoverFile'))
    /\ handoverRows' = handoverRows
                        + CountRows(Appended(handoverFile, handoverFile'), "HANDOVER")
    /\ UNCHANGED <<now, instant, velocity, mobileX, flowCsv, lastAssociated,
                   snapshot, txPower>>

\* the engine runs the pending sampler invocation
V4SamplerTick ==
    /\ Running
    /\ scheduled # <<>>
    /\ Head(scheduled) = Now
    /\ V4RssiMonitorCallback
    /\ UNCHANGED <<now, instant, velocity, mobileX, flowCsv, event, nEvents,
                   lastAssociated, handoverRows, logged, snapshot, txPower>>

\* the handlers of wifi-roaming-v4.cc under the events, sampler instants and
\* station positions of Spec
NextV4 ==
    \/ OpenSinks
    \/ StartRun
    \/ V4Associate
    \/ V4Disassociate
    \/ V4SamplerTick
    \/ TurnBack
    \/ Advance
    \/ Stop
    \/ PostRun

SpecV4 == Init /\ [][NextV4]_vars

\* receiver positions around a transmitter: on it, within the reference
\* distance, at the reference distance and beyond it
ProbePositions(tx) ==
    { Position(tx.x + 5 * dx, tx.y + 5 * dy, tx.z + 5 * dz) :
        dx \in 0..MaxReach, dy \in 0..MaxReach, dz \in 0..1 }

\* CalculateRssi as a function of its arguments: an AP position and two
\* receiver positions, chosen before the calls
InitRssi ==
    /\ pc = "positions"
    /\ txPower = defaultTxPower
    /\ now = 0
    /\ instant = 0
    /\ scheduled = <<>>
    /\ velocity = speed
    /\ mobileX = 0
    /\ handoverCount = 0
    /\ currentAp = <<>>
    /\ handoverFile = EmptySink
    /\ rssiFile = EmptySink
    /\ flowCsv = EmptySink
    /\ console = EmptySink
    /\ \E j \in 0..(NumAps - 1) :
          \E rx1 \in ProbePositions(ApPosition(j)),
             rx2 \in ProbePositions(ApPosition(j)) :
              event = [kind |-> "positions", afterDeassoc |-> FALSE,
                       tx |-> ApPosition(j), rx |-> <<rx1, rx2>>]
    /\ nEvents = 0
    /\ lastAssociated = <<>>
    /\ handoverRows = 0
    /\ logged = <<>>
    /\ snapshot = <<>>

\* double rssi = CalculateRssi(apMobility, staMobility), for each of the two
\* receiver positions
Measure ==
    /\ pc = "positions"
    /\ pc' = "measured"
    /\ event' = [kind |-> "measured", afterDeassoc |-> FALSE,
                 tx |-> event.tx, rx |-> event.rx,
                 rssi |-> [k \in 1..2 |-> CalculateRssi(event.tx, event.rx[k])],
                 log10 |-> [k \in 1..2 |-> Log10Calls(event.tx, event.rx[k])]]
    /\ UNCHANGED <<now, instant, scheduled, velocity, mobileX, handoverCount,
                   currentAp, handoverFile, rssiFile, flowCsv, console,
                   nEvents, lastAssociated, handoverRows, logged, snapshot, txPower>>

NextRssi == Measure

SpecRssi == InitRssi /\ [][NextRssi]_vars

(* ------------------------------ claims --------------------------------- *)

\* the step delivers an Associate (to the station and AP of event')
AssocStep == nEvents' = nEvents + 1 /\ event'.kind = "Associate"

\* the step delivers a Disassociate
DisassocStep == nEvents' = nEvents + 1 /\ event'.kind = "Disassociate"

\* lines of the given kind among console lines
NarrationLines(lines, kind) == {k \in 1..Len(lines) : lines[k][1] = kind}

\* C1: on every Associate the handover counter grows by exactly 1 when the
\* AP differs from the AP of the station's preceding Associate, and by 0
\* otherwise, whatever Disassociate events and other stations' events came
\* in between.
C1_CounterStep ==
    [][AssocStep =>
        handoverCount' = handoverCount +
            (IF /\ event'.stationId \in DOMAIN lastAssociated
                /\ lastAssociated[event'.stationId] # event'.apId
             THEN 1 ELSE 0)]_vars

C1_Witness ==
    /\ event.kind = "Associate"
    /\ handoverCount = 1
    /\ DOMAIN lastAssociated = StaNodes
    /\ Len(handoverFile.tail) = 2
    /\ handoverFile.tail[1][2] = "HANDOVER"

\* C2: the first Associate ever delivered for a station leaves the handover
\* counter unchanged, writes no HANDOVER row and prints no handover line,
\* whatever its AP and whatever other stations did before; the station is
\* registered silently (the run goes on, the station is recorded).
C2_FirstAssociation ==
    [][(AssocStep /\ event'.stationId \notin DOMAIN lastAssociated) =>
        /\ handoverCount' = handoverCount
        /\ handoverFile'.size > handoverFile.size
        /\ CountRows(handoverFile'.tail, "HANDOVER") = 0
        /\ NarrationLines(console'.tail, "HANDOVER #") = {}
        /\ event'.stationId \in DOMAIN currentAp'
        /\ pc' = pc]_vars

C2_Witness ==
    /\ event.kind = "Associate"
    /\ handoverCount >= 1
    /\ Len(console.tail) = 2
    /\ console.tail[2][1] = "Premiere association"
    /\ Len(handoverFile.tail) = 1

\* C3: an Associate for a station whose currentAp is set and differs from the
\* new AP appends exactly two adjacent rows: HANDOVER (from the former
\* currentAp to the new AP), then ASSOC for the new AP, both with the time
\* and station of the event.
C3_HandoverThenAssoc ==
    [][(/\ AssocStep
        /\ event'.stationId \in DOMAIN currentAp
        /\ currentAp[event'.stationId] # event'.apId) =>
        /\ handoverFile'.size = handoverFile.size + 2
        /\ handoverFile'.tail =
             << <<GetSeconds(event'.time), "HANDOVER", event'.stationId,
                  MacToString(currentAp[event'.stationId]),
                  MacToString(event'.apId)>>,
                <<GetSeconds(event'.time), "ASSOC", event'.stationId,
                  MacToString(event'.apId)>> >>]_vars

C3_Witness ==
    /\ event.kind = "Associate"
    /\ event.time > 0
    /\ Len(handoverFile.tail) = 2
    /\ handoverFile.tail[1][2] = "HANDOVER"
    /\ handoverFile.tail[2][2] = "ASSOC"

\* C4: every Associate appends exactly one ASSOC row of four columns (time,
\* station, AP, no AccessPoint2), as the last row it writes; it appends a
\* HANDOVER row if and only if the station's currentAp was set and differed,
\* and only HANDOVER rows have a fifth column.
C4_OneAssocRow ==
    [][AssocStep =>
        LET rows == handoverFile'.tail
            handover == /\ event'.stationId \in DOMAIN currentAp
                        /\ currentAp[event'.stationId] # event'.apId
        IN  /\ handoverFile'.size = handoverFile.size + Len(rows)
            /\ Len(rows) = (IF handover THEN 2 ELSE 1)
            /\ CountRows(rows, "ASSOC") = 1
            /\ rows[Len(rows)] = <<GetSeconds(event'.time), "ASSOC",
                                   event'.stationId, MacToString(event'.apId)>>
            /\ (CountRows(rows, "HANDOVER") = 1) <=> handover
            /\ \A k \in 1..Len(rows) :
                  (Len(rows[k]) = 5) <=> (rows[k][2] = "HANDOVER")]_vars

C4_Witness ==
    /\ event.kind = "Associate"
    /\ Len(console.tail) = 2
    /\ console.tail[2][1] = "Reassociation au meme AP"
    /\ handoverCount = 1
    /\ Len(handoverFile.tail) = 1
    /\ Len(handoverFile.tail[1]) = 4

\* C5: currentAp holds, for exactly the stations that have had an Associate,
\* the AP of their latest Associate; an entry is never removed, and a step
\* changes no entry but that of the station of the Associate it delivers.
C5_CurrentApIsLatestAssociate ==
    /\ [](currentAp = lastAssociated)
    /\ [][/\ DOMAIN currentAp \subseteq DOMAIN currentAp'
          /\ \A s \in DOMAIN currentAp :
                (~(AssocStep /\ event'.stationId = s)) =>
                    currentAp'[s] = currentAp[s]]_vars

C5_Witness ==
    /\ DOMAIN currentAp = StaNodes
    /\ \E s, t \in StaNodes : currentAp[s] # currentAp[t]
    /\ event.kind = "Associate"
    /\ nEvents = MaxEvents

\* C6: a Disassociate changes neither currentAp, for any station, nor the
\* handover counter.
C6_DisassociateKeepsState ==
    [][DisassocStep =>
        (currentAp' = currentAp /\ handoverCount' = handoverCount)]_vars

C6_Witness ==
    /\ event.kind = "Disassociate"
    /\ event.stationId \in DOMAIN currentAp
    /\ currentAp[event.stationId] = event.apId
    /\ handoverCount >= 1

\* C7: an Associate(B) that directly follows the station's Disassociate from
\* A, the AP of its latest Associate, is classified against A: a handover
\* A -> B (counter + 1, HANDOVER row) when B differs from A, a reassociation
\* (no counter change, no HANDOVER row) when B equals A.
C7_ClassifiedAgainstLastAssociated ==
    [][(AssocStep /\ JustDisassociated(event'.stationId)) =>
        IF event'.apId # lastAssociated[event'.stationId]
        THEN /\ handoverCount' = handoverCount + 1
             /\ handoverFile'.tail[1] =
                   <<GetSeconds(event'.time), "HANDOVER", event'.stationId,
                     MacToString(lastAssociated[event'.stationId]),
                     MacToString(event'.apId)>>
        ELSE /\ handoverCount' = handoverCount
             /\ CountRows(handoverFile'.tail, "HANDOVER") = 0]_vars

C7_Witness ==
    /\ event.kind = "Associate"
    /\ event.afterDeassoc
    /\ handoverCount = 1
    /\ Len(handoverFile.tail) = 2
    /\ handoverFile.tail[1][2] = "HANDOVER"

\* C8: every Disassociate appends exactly one row, the DEASSOC row of its
\* time, station and AP, whatever is recorded for the station, and writes
\* to no other file.
C8_OneDeassocRow ==
    [][DisassocStep =>
        /\ handoverFile'.size = handoverFile.size + 1
        /\ handoverFile'.tail =
             << <<GetSeconds(event'.time), "DEASSOC", event'.stationId,
                  MacToString(event'.apId)>> >>
        /\ rssiFile' = rssiFile
        /\ flowCsv' = flowCsv]_vars

C8_Witness ==
    /\ event.kind = "Disassociate"
    /\ event.stationId \in DOMAIN currentAp
    /\ currentAp[event.stationId] # event.apId
    /\ Len(handoverFile.tail) = 1
    /\ handoverFile.tail[1][2] = "DEASSOC"

\* C9: only a step that delivers an Associate changes the handover counter
\* or currentAp (sampler ticks, Disassociates, the flow report and every
\* other step leave both as they are), and the counter never decreases.
C9_OnlyAssociateMutates ==
    [][/\ (handoverCount' # handoverCount \/ currentAp' # currentAp) => AssocStep
       /\ handoverCount' >= handoverCount]_vars

C9_Witness ==
    /\ pc = "done"
    /\ handoverCount >= 1
    /\ rssiFile.size > 1 + Len(SamplerPairs)
    /\ flowCsv.size > 1
    /\ event.kind = "Disassociate"

PositionOf(text, c) ==
    IF \E k \in 1..Len(text) : text[k] = c
    THEN CHOOSE k \in 1..Len(text) :
            text[k] = c /\ \A j \in 1..(k - 1) : text[j] # c
    ELSE 0

\* the number of ticks a reader (std::stod) gets from a time column:
\* digits [. digits] [e-0N]
ParseDouble(text) ==
    LET e        == PositionOf(text, "e")
        mantissa == IF e = 0 THEN text ELSE SubSeq(text, 1, e - 1)
        exp      == IF e = 0 THEN 0 ELSE DigitValue(text[Len(text)])
        dot      == PositionOf(mantissa, ".")
        int      == IF dot = 0 THEN mantissa ELSE SubSeq(mantissa, 1, dot - 1)
        frac     == IF dot = 0 THEN <<>>
                    ELSE SubSeq(mantissa, dot + 1, Len(mantissa))
    IN  DecimalValue(int \o frac) * Pow10(7 - Len(frac) - exp)

ParseHex(c) == CHOOSE d \in 0..15 : HexDigit[d + 1] = c

ParseMac(text) ==
    [i \in 1..6 |-> 16 * ParseHex(text[i][1]) + ParseHex(text[i][2])]

\* the event or handover a reader recovers from one row
ParseRow(row) ==
    IF row[2] = "HANDOVER"
    THEN [is |-> "handover", time |-> ParseDouble(row[1]), stationId |-> row[3],
          fromAp |-> ParseMac(row[4]), toAp |-> ParseMac(row[5])]
    ELSE [is |-> "event", time |-> ParseDouble(row[1]),
          kind |-> IF row[2] = "ASSOC" THEN "Associate" ELSE "Disassociate",
          stationId |-> row[3], apId |-> ParseMac(row[4])]

\* the handover (if any) and the event that the step's delivery generates
Generated ==
    (IF /\ event'.kind = "Associate"
        /\ event'.stationId \in DOMAIN lastAssociated
        /\ lastAssociated[event'.stationId] # event'.apId
     THEN <<[is |-> "handover", time |-> event'.time,
             stationId |-> event'.stationId,
             fromAp |-> lastAssociated[event'.stationId],
             toAp |-> event'.apId]>>
     ELSE <<>>)
    \o <<[is |-> "event", time |-> event'.time, kind |-> event'.kind,
          stationId |-> event'.stationId, apId |-> event'.apId]>>

\* C11: reading handover_events.csv back gives the ordered list of events
\* (time, kind, station, AP) and handovers (time, station, from, to) that
\* generated it: the rows each delivered event appends, read back, are that
\* event and its handover, with the same values.
C11_RoundTrip ==
    [][(AssocStep \/ DisassocStep) =>
        [k \in 1..Len(handoverFile'.tail) |-> ParseRow(handoverFile'.tail[k])]
            = Generated]_vars

(* ---- RSSI sampler ---- *)

\* the step runs a sampler invocation
SamplerStep == pc = "running" /\ pc' = "running" /\ scheduled' # scheduled

\* rows one invocation has to write: one per (station, AP) pair
PairCount == (nStaFixed + 1) * NumAps

\* number of sampler invocations that have written their rows
TicksRun == (rssiFile.size - 1) \div PairCount

\* x of the mobile station after p periods: constant speed, turning back at
\* half of the run
MobileAt(p) ==
    IF p <= HalfSimTicks THEN speed * p ELSE speed * (2 * HalfSimTicks - p)

\* C12: a sampler tick appends exactly one row per (station, AP) pair, that
\* is stations x APs rows with no pair missing or repeated, each stamped
\* with the time of the tick and the position of its station at that time.
C12_OneSamplePerPair ==
    [][SamplerStep =>
        LET rows == rssiFile'.tail
        IN  /\ rssiFile'.size = rssiFile.size + (nStaFixed + 1) * NumAps
            /\ Len(rows) = (nStaFixed + 1) * NumAps
            /\ \A i \in 0..nStaFixed, j \in 0..(NumAps - 1) :
                  Cardinality({k \in 1..Len(rows) :
                                  rows[k][2] = i /\ rows[k][3] = j}) = 1
            /\ \A k \in 1..Len(rows) :
                  /\ rows[k][1] = FormatDouble(now * RssiPeriod)
                  /\ rows[k][4] = (IF rows[k][2] < nStaFixed
                                   THEN 20 + 5 * rows[k][2] ELSE MobileAt(now))
                  /\ rows[k][5] = (IF rows[k][2] < nStaFixed
                                   THEN 10 + 10 * rows[k][2] ELSE 20)]_vars

C12_Witness ==
    /\ pc = "running"
    /\ rssiFile.size = 1 + 2 * PairCount
    /\ Len(rssiFile.tail) = PairCount
    /\ rssiFile.tail[PairCount][2] = nStaFixed
    /\ rssiFile.tail[PairCount][4] = speed

\* C13: the n-th sample of every (station, AP) pair is stamped (n - 1) x
\* 100 ms: sampling starts at t = 0, consecutive samples of a pair are one
\* period apart with increasing time stamps, no period boundary is left
\* without its samples while the run lasts, and when the run has stopped the
\* samples cover 0 .. simTime - 100 ms.
C13_ConstantPeriod ==
    /\ TicksRun >= 1 =>
          \A k \in 1..Len(rssiFile.tail) :
              ParseDouble(rssiFile.tail[k][1]) = (TicksRun - 1) * RssiPeriod
    /\ pc = "running" => (TicksRun = now \/ TicksRun = now + 1)
    /\ pc \in {"stopped", "done"} => TicksRun = simTime

C13_Witness ==
    /\ pc = "stopped"
    /\ TicksRun = simTime
    /\ ParseDouble(rssiFile.tail[1][1]) = (simTime - 1) * RssiPeriod
    /\ handoverCount >= 1

\* C14: a sampler invocation schedules exactly one next invocation, one
\* period after its own time, whatever the time; so from the start of the
\* run until main leaves Simulator::Run exactly one invocation is pending, and
\* when the run has stopped the invocation due at simTime is pending and has
\* not run.
C14_OnePending ==
    /\ [](pc \in {"running", "stopped"} => Len(scheduled) = 1)
    /\ [][SamplerStep => scheduled' = <<now * RssiPeriod + RssiPeriod>>]_vars
    /\ [](pc = "stopped" =>
             (scheduled = <<simTime * RssiPeriod>> /\ TicksRun = simTime))

C14_Witness ==
    /\ pc = "stopped"
    /\ scheduled = <<simTime * RssiPeriod>>
    /\ rssiFile.size = 1 + simTime * PairCount
    /\ nEvents = 0

(* ---- flow report ---- *)

\* the report rows of flow_stats.csv (the header is not one)
ReportRows == Tail(flowCsv.tail)

\* C16: the Duration column of a flow's report is lastRx - firstTx, and for
\* a flow without received traffic it is 0, never a negative number; a flow
\* with no traffic at all has duration 0 and throughput 0.
C16_DurationNotNegative ==
    (pc = "done" /\ ~flowCsv.failed) =>
        \A k \in 1..Len(ReportRows) :
            LET row == ReportRows[k]
                f   == snapshot[row[1]]
            IN  /\ row[12] = (IF f.rxPackets = 0 THEN <<0, 1>>
                              ELSE Rational(f.timeLastRxPacket
                                              - f.timeFirstTxPacket, 10))
                /\ row[12][1] >= 0
                /\ (f.txPackets = 0 /\ f.rxPackets = 0) =>
                      (row[12] = <<0, 1>> /\ row[13] = <<0, 1>>)

\* C17: in every report row the throughput is 0 when the duration is not
\* positive, and otherwise throughput x duration x 1000 = rxBytes x 8 (in
\* Kbps and seconds); 900000 bytes received over 8 s give 900 Kbps.
C17_Throughput ==
    (pc = "done" /\ ~flowCsv.failed) =>
        \A k \in 1..Len(ReportRows) :
            LET row        == ReportRows[k]
                rxBytes    == row[11]
                duration   == row[12]
                throughput == row[13]
            IN  /\ throughput[2] > 0
                /\ duration[1] <= 0 => throughput = <<0, 1>>
                /\ duration[1] > 0 =>
                      throughput[1] * duration[1] * 1000
                          = rxBytes * 8 * throughput[2] * duration[2]
                /\ (rxBytes = 900000 /\ duration = <<8, 1>>) =>
                      throughput = <<900, 1>>

C17_Witness ==
    /\ pc = "done"
    /\ \E k \in 1..Len(ReportRows) : ReportRows[k][13] = <<900, 1>>
    /\ \E k \in 1..Len(ReportRows) :
          ReportRows[k][12][1] < 0 /\ ReportRows[k][13] = <<0, 1>>
    /\ \E k \in 1..Len(ReportRows) :
          ReportRows[k][12][1] = 0 /\ ReportRows[k][13] = <<0, 1>>

\* C18: flow_stats.csv is written in one step, taken when the run has
\* stopped, and never again; that step writes the header and then one row per
\* flow of the snapshot, in ascending order of flow id, each flow once, with
\* the flow's counters; from the stop on, no association row and no RSSI
\* sample is written.
C18_ReportOncePerFlow ==
    /\ [][flowCsv' # flowCsv =>
            /\ pc = "stopped" /\ pc' = "done"
            /\ flowCsv.size = 0
            /\ flowCsv'.size = 1 + Cardinality(DOMAIN snapshot')
            /\ Len(flowCsv'.tail) = flowCsv'.size
            /\ flowCsv'.tail[1] = FlowHeader
            /\ {flowCsv'.tail[k][1] : k \in 2..Len(flowCsv'.tail)}
                  = DOMAIN snapshot'
            /\ \A k \in 2..Len(flowCsv'.tail) :
                  LET row == flowCsv'.tail[k]
                  IN  /\ k > 2 => flowCsv'.tail[k - 1][1] < row[1]
                      /\ row[4] = snapshot'[row[1]].txPackets
                      /\ row[5] = snapshot'[row[1]].rxPackets
                      /\ row[10] = snapshot'[row[1]].txBytes
                      /\ row[11] = snapshot'[row[1]].rxBytes]_vars
    /\ [][(pc = "stopped" \/ pc = "done") =>
            (handoverFile' = handoverFile /\ rssiFile' = rssiFile)]_vars
    /\ [][pc = "done" => flowCsv' = flowCsv]_vars

C18_Witness ==
    /\ pc = "done"
    /\ flowCsv.size = 1 + MaxFlows
    /\ Len(snapshot) = MaxFlows
    /\ nEvents = MaxEvents
    /\ rssiFile.size = 1 + simTime * PairCount

(* ---- failures ---- *)

\* C19: when one of the output files cannot be opened the run aborts at
\* startup: with a failed sink no association event is handled, no sampler
\* invocation runs and the run is not carried to its end.
C19_SinkFailureFatal ==
    (handoverFile.failed \/ rssiFile.failed \/ flowCsv.failed) =>
        /\ nEvents = 0
        /\ scheduled = <<>>
        /\ pc \notin {"running", "stopped", "done"}

\* a context lacks one of the two delimiters
DelimiterAbsent(context) ==
    \/ Find(context, NodeListText, 0) = NPOS
    \/ Find(context, DeviceText, 0) = NPOS

\* C20: a handler that receives a context without "/NodeList/" or without
\* "/Device" ends in a parse failure that ends the run; it does not go on to
\* handle the event under some station id (no row written, nothing
\* recorded).
C20_ParseFailure ==
    [][(/\ nEvents' = nEvents + 1
        /\ "context" \in DOMAIN event'
        /\ DelimiterAbsent(event'.context)) =>
        /\ pc' = "terminated"
        /\ handoverFile' = handoverFile
        /\ currentAp' = currentAp
        /\ handoverCount' = handoverCount]_vars

(* ------------------------- header rows --------------------------------- *)

\* none of the lines reads as the header row (lines compared as text: a data
\* row holds numbers where the header holds column names)
DataRows(lines, header) ==
    \A k \in 1..Len(lines) : ToString(lines[k]) # ToString(header)

\* C21: each output file starts with its header row, written once and
\* before any data row: handover_events.csv and rssi_measurements.csv hold
\* their header from the moment main leaves the opening code, that is before
\* the callbacks are connected, before any event is delivered and before the
\* sampler is scheduled or has run; the write that finds a file empty writes
\* the header first, and every later write appends data rows only;
\* flow_stats.csv is written in one step whose first line is the header and
\* whose other lines are flow rows.
C21_HeaderFirst ==
    /\ [](pc # "setup" => handoverFile.size >= 1 /\ rssiFile.size >= 1)
    /\ []((scheduled # <<>> \/ nEvents > 0 \/ TicksRun > 0) => pc # "setup")
    /\ [][(handoverFile' # handoverFile) =>
            IF handoverFile.size = 0
            THEN /\ pc = "setup" /\ nEvents = 0 /\ scheduled = <<>>
                 /\ handoverFile'.tail = <<HandoverHeader>>
            ELSE DataRows(handoverFile'.tail, HandoverHeader)]_vars
    /\ [][(rssiFile' # rssiFile) =>
            IF rssiFile.size = 0
            THEN /\ pc = "setup" /\ nEvents = 0 /\ scheduled = <<>>
                 /\ rssiFile'.tail = <<RssiHeader>>
            ELSE DataRows(rssiFile'.tail, RssiHeader)]_vars
    /\ [][(flowCsv' # flowCsv) =>
            /\ flowCsv.size = 0
            /\ ~DataRows(<<Head(flowCsv'.tail)>>, FlowHeader)
            /\ DataRows(Tail(flowCsv'.tail), FlowHeader)]_vars

\* a finished run whose three files hold data rows after their header
C21_Witness ==
    /\ pc = "done"
    /\ handoverFile.size > 1
    /\ rssiFile.size > 1
    /\ flowCsv.size > 1

(* ------------------------- propagation --------------------------------- *)

\* squared distance of the k-th measured receiver position, dm^2
MeasuredDistance2(k) == Distance2(event.tx, event.rx[k])

\* C22: for every distance at or below the reference distance, zero
\* included, CalculateRssi returns exactly txPowerDbm - referenceLoss, and
\* std::log10 is never called for a distance at or below the reference
\* distance.
C22_WithinReferenceDistance ==
    pc = "measured" =>
        \A k \in 1..2 :
            /\ MeasuredDistance2(k) <= referenceDistance2 =>
                   /\ event.rssi[k] = txPowerDbm - referenceLoss
                   /\ event.log10[k] = <<>>
            /\ \A c \in 1..Len(event.log10[k]) :
                   event.log10[k][c] > referenceDistance2

\* measurements on the transmitter itself and exactly at the reference
\* distance
C22_Witness ==
    /\ pc = "measured"
    /\ MeasuredDistance2(1) = 0
    /\ MeasuredDistance2(2) = referenceDistance2

\* C23: for distances d1 < d2, both beyond the reference distance, the
\* value at d1 is at least the value at d2.
C23_Monotone ==
    (/\ pc = "measured"
     /\ referenceDistance2 < MeasuredDistance2(1)
     /\ MeasuredDistance2(1) < MeasuredDistance2(2))
        => event.rssi[1] >= event.rssi[2]

\* two distances beyond the reference distance with different values
C23_Witness ==
    /\ pc = "measured"
    /\ referenceDistance2 < MeasuredDistance2(1)
    /\ MeasuredDistance2(1) < MeasuredDistance2(2)
    /\ event.rssi[1] > event.rssi[2]

(* ------------------------- mean delay ---------------------------------- *)

\* the "Flux" blocks of the console summary of the flow report
FlowSummaries ==
    SelectSeq(console.tail, LAMBDA line : line[1] = "Flux")

\* C24: for every flow of the snapshot the mean delay printed in the summary
\* is delaySum / rxPackets when rxPackets > 0 and 0 when rxPackets = 0; the
\* quotient always has a non-zero divisor.
C24_MeanDelay ==
    pc = "done" =>
        /\ Len(FlowSummaries) = Len(snapshot)
        /\ \A k \in 1..Len(FlowSummaries) :
              LET id        == FlowSummaries[k][2]
                  rxPackets == snapshot[id].rxPackets
                  delaySum  == snapshot[id].delaySum
                  meanDelay == FlowSummaries[k][9]
              IN  /\ meanDelay[2] > 0
                  /\ rxPackets = 0 => meanDelay = <<0, 1>>
                  /\ rxPackets > 0 =>
                        meanDelay[1] * 1000 * rxPackets = delaySum * meanDelay[2]
                  /\ (rxPackets = 9 /\ delaySum = 18) => meanDelay = <<1, 500>>

\* a report with a flow that received nothing and a flow with a mean delay of
\* 2 ms
C24_Witness ==
    /\ pc = "done"
    /\ \E k \in 1..Len(FlowSummaries) :
          FlowSummaries[k][6] = 0 /\ FlowSummaries[k][5] > 0
              /\ FlowSummaries[k][9] = <<0, 1>>
    /\ \E k \in 1..Len(FlowSummaries) :
          FlowSummaries[k][6] = 9 /\ FlowSummaries[k][9] = <<1, 500>>

(* ------------------------- counter and log ----------------------------- *)

\* C25: in every reachable state handoverCount equals the number of HANDOVER
\* rows appended to handover_events.csv so far, over all stations.
C25_CounterMatchesLog ==
    handoverCount = handoverRows

\* a finished run with two handovers logged
C25_Witness ==
    /\ pc = "done"
    /\ handoverRows = 2
    /\ handoverCount = 2

(* ------------------------- handover chain ------------------------------ *)

\* C26: every HANDOVER row has AccessPoint1 different from AccessPoint2; its
\* AccessPoint1 is the AP of the same station's most recent earlier ASSOC row,
\* and, when the station has an earlier HANDOVER row, the AccessPoint2 of the
\* latest of them.
C26_HandoverChain ==
    [][\A k \in 1..Len(Appended(handoverFile, handoverFile')) :
          LET rows   == Appended(handoverFile, handoverFile')
              row    == rows[k]
              before == LoggedFor(Logged(logged, SubSeq(rows, 1, k - 1)), row[3])
          IN  row[2] = "HANDOVER" =>
                 /\ row[4] # row[5]
                 /\ before.assoc = row[4]
                 /\ before.handover # <<>> => before.handover = row[4]]_vars

\* the second handover of a station has been logged: two HANDOVER rows, the
\* latest just written, both of one station
C26_Witness ==
    /\ handoverRows = 2
    /\ Len(handoverFile.tail) = 2
    /\ handoverFile.tail[1][2] = "HANDOVER"
    /\ Cardinality({n \in DOMAIN logged : logged[n].handover # <<>>}) = 1

(* ------------------------- failed extraction --------------------------- *)

\* C27: when the extraction of the station id throws in the association or
\* the disassociation handler, the event has no effect on the analytics: no
\* row is appended to handover_events.csv, nothing is printed, and
\* handoverCount and currentAp are as before the event.
C27_FailureBeforeEffects ==
    [][(/\ nEvents' = nEvents + 1
        /\ "context" \in DOMAIN event'
        /\ ParseNodeId(event'.context) < 0) =>
        /\ pc' = "terminated"
        /\ handoverFile' = handoverFile
        /\ console' = console
        /\ handoverCount' = handoverCount
        /\ currentAp' = currentAp]_vars

\* the extraction failed in the association handler after a handover had
\* been counted and logged
C27_Witness ==
    /\ pc = "terminated"
    /\ event.kind = "Associate"
    /\ ParseNodeId(event.context) < 0
    /\ handoverCount = 1
    /\ handoverRows = 1
    /\ handoverFile.size = 4

(* ------------------------- station identifiers ------------------------- *)

\* C28: the StationID of a row of rssi_measurements.csv is the index of the
\* station in the container handed to the sampler (0..N-1); the StationID of
\* a row of handover_events.csv is the node id of the station the event was
\* delivered for; the station at index k is node k + 2, the two AP nodes
\* being created first, so no station has the same id in the two files.
C28_StationIds ==
    /\ rssiFile.size > 1 =>
          \A k \in 1..Len(rssiFile.tail) :
              LET index == rssiFile.tail[k][2]
              IN  /\ index \in 0..nStaFixed
                  /\ index = SamplerPairs[k][1]
                  /\ allStaNodes[index] = index + 2
    /\ (handoverFile.size > 1 /\ pc # "terminated") =>
          \A k \in 1..Len(handoverFile.tail) :
              LET nodeId == handoverFile.tail[k][3]
              IN  /\ nodeId = event.stationId
                  /\ \E index \in DOMAIN allStaNodes :
                        /\ allStaNodes[index] = nodeId
                        /\ nodeId = index + 2
                        /\ nodeId # index

\* the mobile station is in both files: as the last index of the container
\* in an RSSI row and as its node id in a HANDOVER row
C28_Witness ==
    /\ rssiFile.size > 1
    /\ rssiFile.tail[Len(rssiFile.tail)][2] = nStaFixed
    /\ handoverFile.size > 1
    /\ handoverFile.tail[1][2] = "HANDOVER"
    /\ handoverFile.tail[1][3] = mobileNode
    /\ mobileNode = nStaFixed + 2

(* ------------------------- transmit-power option ----------------------- *)

\* C29: whatever the value of the option txPower, the RSSI of every sample
\* is the value given by the positions of the AP and of the station with
\* 16 dBm, exponent 3, reference distance 1 m and reference loss 46.6777 dB,
\* so that runs that differ in the option only write the same rows.
C29_OptionIgnored ==
    [][SamplerStep =>
        \A k \in 1..Len(rssiFile'.tail) :
            LET row       == rssiFile'.tail[k]
                distance2 == Distance2(ApPosition(row[3]),
                                       StaPosition(row[2], mobileX))
            IN  /\ row[4] = StaPosition(row[2], mobileX).x
                /\ row[5] = StaPosition(row[2], mobileX).y
                /\ row[6] = 160000 - 466777
                              - (IF distance2 <= 100 THEN 0
                                 ELSE (10 * 3 * (Log10e4(distance2) - 20000)) \div 2)]_vars

\* samples written in a run started with 20 dBm
C29_Witness ==
    /\ txPower = 200000
    /\ txPower # txPowerDbm
    /\ rssiFile.size > 1
    /\ pc = "done"

(* ------------------------- the two scenario files ---------------------- *)

\* the lines of roaming-saturation.cc's narration that wifi-roaming-v4.cc
\* prints as well
SharedNarration(lines) ==
    SelectSeq(lines, LAMBDA line : line[1] \in {"ASSOCIATION", "HANDOVER #"})

\* C30: from the same analytics state and on the same event, sampler
\* instant and positions, the handlers of wifi-roaming-v4.cc append the rows
\* the handlers of roaming-saturation.cc append to handover_events.csv and
\* rssi_measurements.csv and leave the same handoverCount and currentAp (so
\* the two files agree on every sequence of events and ticks); the console
\* lines of an association differ by the reassociation / first-association
\* line that only roaming-saturation.cc prints.
C30_SameAnalytics ==
    [][/\ AssocStep =>
            LET nodeId == event'.stationId
                apAddr == event'.apId
            IN  /\ handoverCount' =
                      NextHandoverCount(handoverCount, currentAp, nodeId, apAddr)
                /\ currentAp' = MapPut(currentAp, nodeId, apAddr)
                /\ handoverFile' = Write(handoverFile,
                       AssociationRows(currentAp, Now, nodeId, apAddr))
                /\ rssiFile' = rssiFile
                /\ console'.tail = SharedNarration(
                       AssociationNarration(handoverCount, currentAp, Now, nodeId, apAddr))
       /\ DisassocStep =>
            /\ handoverFile' = Write(handoverFile,
                   DisassociationRows(Now, event'.stationId, event'.apId))
            /\ UNCHANGED <<handoverCount, currentAp, rssiFile>>
       /\ SamplerStep =>
            /\ rssiFile' = Write(rssiFile, RssiRows(Now, mobileX))
            /\ scheduled' = Append(Tail(scheduled), Now + RssiPeriod)
            /\ UNCHANGED <<handoverCount, currentAp, handoverFile>>]_vars

\* a reassociation after a handover, for which wifi-roaming-v4.cc prints the
\* association line only, with samples written
C30_Witness ==
    /\ event.kind = "Associate"
    /\ handoverCount = 1
    /\ Len(handoverFile.tail) = 1
    /\ Len(console.tail) = 1
    /\ console.tail[1][1] = "ASSOCIATION"
    /\ rssiFile.size > 1

====
